---------------------------- MODULE Spec2Model ----------------------------
(***************************************************************************)
(* Model of the time-series library timeseries-analysis (src/lib.rs):      *)
(* linear_regression, calculate_mse, calculate_r_squared, predict_future,  *)
(* calculate_descriptive_stats and ascii_plot.                             *)
(*                                                                         *)
(* Numbers.  The library computes in f64.  An f64 is modelled as a binary  *)
(* floating-point number m * 2^e with a mantissa of MantissaBits bits, and *)
(* every arithmetic operation is the exact result rounded to the nearest   *)
(* representable number, ties to even, as IEEE 754 prescribes.  f64 has a  *)
(* 53-bit mantissa; the model keeps the format and the rounding rule and   *)
(* shortens the mantissa, so that rounding happens on small numbers.       *)
(* EPSILON is, as for f64, the gap between 1.0 and the next number,        *)
(* 2^(1 - MantissaBits).  The exponent is unbounded (no overflow to        *)
(* infinity, no subnormals) and zero is unsigned; infinities and NaN exist *)
(* as values (the fold seeds, a division by zero).                         *)
(***************************************************************************)
EXTENDS Integers, Sequences, FiniteSets, TLC

VARIABLES call, ret, printed, pc

vars == <<call, ret, printed, pc>>

---------------------------------------------------------------------------
(* Bounds of the model *)

\* mantissa width of the modelled floating-point format (f64: 53)
MantissaBits == 5
\* longest sequence given to the one-sequence functions
MaxLen == 3
\* longest sequence given to the two-sequence functions
MaxPairLen == 2
\* largest number of future periods asked of predict_future
MaxPeriods == 2

---------------------------------------------------------------------------
(* f64: values *)

\* the exponent field that marks an infinity or a NaN
SpecialExp == 9999

Float(m, e) == [m |-> m, e |-> e]

Zero == Float(0, 0)
One == Float(1, 0)
INFINITY == Float(1, SpecialExp)
NEG_INFINITY == Float(-1, SpecialExp)
NAN == Float(0, SpecialExp)

IsNaN(a) == a.e = SpecialExp /\ a.m = 0
IsInf(a) == a.e = SpecialExp /\ a.m # 0
IsFinite(a) == a.e # SpecialExp

Abs(n) == IF n < 0 THEN -n ELSE n
Sign(n) == IF n < 0 THEN -1 ELSE IF n > 0 THEN 1 ELSE 0
Min2(a, b) == IF a < b THEN a ELSE b
Max2(a, b) == IF a > b THEN a ELSE b

RECURSIVE BitLen(_)
\* number of binary digits of n >= 0
BitLen(n) == IF n = 0 THEN 0 ELSE 1 + BitLen(n \div 2)

RECURSIVE Normal(_, _, _)
\* the canonical form of sign * n * 2^e, n >= 0: n odd, or zero
Normal(sign, n, e) ==
    IF n = 0 THEN Zero
    ELSE IF n % 2 = 0 THEN Normal(sign, n \div 2, e + 1)
    ELSE Float(sign * n, e)

\* sign * n * 2^e rounded to MantissaBits bits, to nearest, ties to even
Round(sign, n, e) ==
    IF BitLen(n) <= MantissaBits THEN Normal(sign, n, e)
    ELSE LET s == BitLen(n) - MantissaBits
             q == n \div (2 ^ s)
             r == n % (2 ^ s)
             half == 2 ^ (s - 1)
             up == r > half \/ (r = half /\ q % 2 = 1)
         IN  Normal(sign, IF up THEN q + 1 ELSE q, e + s)

\* usize as f64
FromUsize(n) == Round(1, n, 0)

\* the integer sign of a - b for finite a and b
Cmp(a, b) ==
    LET e == Min2(a.e, b.e)
    IN  Sign(a.m * (2 ^ (a.e - e)) - b.m * (2 ^ (b.e - e)))

---------------------------------------------------------------------------
(* f64: operations *)

FNeg(a) == Float(-a.m, a.e)
FAbs(a) == Float(Abs(a.m), a.e)

\* a + b
FAdd(a, b) ==
    IF IsNaN(a) \/ IsNaN(b) THEN NAN
    ELSE IF IsInf(a) THEN (IF IsInf(b) /\ a.m # b.m THEN NAN ELSE a)
    ELSE IF IsInf(b) THEN b
    ELSE LET e == Min2(a.e, b.e)
             n == a.m * (2 ^ (a.e - e)) + b.m * (2 ^ (b.e - e))
         IN  Round(Sign(n), Abs(n), e)

\* a - b
FSub(a, b) == FAdd(a, FNeg(b))

\* a * b
FMul(a, b) ==
    IF IsNaN(a) \/ IsNaN(b) THEN NAN
    ELSE IF IsInf(a) \/ IsInf(b)
         THEN (IF a.m = 0 \/ b.m = 0 THEN NAN
               ELSE Float(Sign(a.m) * Sign(b.m), SpecialExp))
    ELSE Round(Sign(a.m) * Sign(b.m), Abs(a.m) * Abs(b.m), a.e + b.e)

\* a / b
FDiv(a, b) ==
    IF IsNaN(a) \/ IsNaN(b) THEN NAN
    ELSE IF IsInf(a)
         THEN (IF IsInf(b) THEN NAN
               ELSE Float(Sign(a.m) * (IF b.m < 0 THEN -1 ELSE 1), SpecialExp))
    ELSE IF IsInf(b) THEN Zero
    ELSE IF b.m = 0
         THEN (IF a.m = 0 THEN NAN ELSE Float(Sign(a.m), SpecialExp))
    ELSE IF a.m = 0 THEN Zero
    ELSE LET k == Max2(0, MantissaBits + 2 + BitLen(Abs(b.m)) - BitLen(Abs(a.m)))
             n == Abs(a.m) * (2 ^ k)
             q == n \div Abs(b.m)
             sticky == IF n % Abs(b.m) = 0 THEN 0 ELSE 1
         IN  Round(Sign(a.m) * Sign(b.m), 2 * q + sticky, a.e - b.e - k - 1)

\* a.powi(2)
FSquare(a) == FMul(a, a)

RECURSIVE ISqrtFrom(_, _, _)
\* the largest q' >= q with q'^2 <= n, trying the bits 2^bit down to 2^0
ISqrtFrom(n, q, bit) ==
    IF bit < 0 THEN q
    ELSE LET t == q + 2 ^ bit
         IN  ISqrtFrom(n, IF t * t <= n THEN t ELSE q, bit - 1)

\* floor of the square root of n >= 0
ISqrt(n) == ISqrtFrom(n, 0, BitLen(n) \div 2)

\* a.sqrt()
FSqrt(a) ==
    IF IsNaN(a) \/ a.m < 0 THEN NAN
    ELSE IF IsInf(a) \/ a.m = 0 THEN a
    ELSE LET want == 2 * (MantissaBits + 2)
             t0 == Max2(0, want - BitLen(a.m))
             t == IF (a.e - t0) % 2 = 0 THEN t0 ELSE t0 + 1
             n == a.m * (2 ^ t)
             q == ISqrt(n)
             sticky == IF q * q = n THEN 0 ELSE 1
         IN  Round(1, 2 * q + sticky, ((a.e - t) \div 2) - 1)

\* a < b
FLt(a, b) ==
    IF IsNaN(a) \/ IsNaN(b) THEN FALSE
    ELSE IF IsInf(a) THEN a.m < 0 /\ ~(IsInf(b) /\ b.m < 0)
    ELSE IF IsInf(b) THEN b.m > 0
    ELSE Cmp(a, b) < 0

\* a >= b
FGe(a, b) == ~IsNaN(a) /\ ~IsNaN(b) /\ ~FLt(a, b)

\* a <= b
FLe(a, b) == FGe(b, a)

\* a.min(b): the lesser; a NaN operand is ignored
FMin(a, b) == IF IsNaN(a) THEN b ELSE IF IsNaN(b) THEN a
              ELSE IF FLt(b, a) THEN b ELSE a

\* a.max(b): the greater; a NaN operand is ignored
FMax(a, b) == IF IsNaN(a) THEN b ELSE IF IsNaN(b) THEN a
              ELSE IF FLt(a, b) THEN b ELSE a

\* f64::EPSILON: the difference between 1.0 and the next larger f64
EPSILON == Float(1, 1 - MantissaBits)

---------------------------------------------------------------------------
(* Results and errors *)

\* TimeSeriesError::new(msg)
TimeSeriesError(msg) == [message |-> msg]

Ok(v) == [tag |-> "Ok", val |-> v]
Err(e) == [tag |-> "Err", val |-> e]
\* the value of a function that returns no Result
Returned(v) == [tag |-> "value", val |-> v]
NoReturn == [tag |-> "none"]

---------------------------------------------------------------------------
(* Iterators *)

RECURSIVE SumFrom(_, _, _)
SumFrom(s, i, acc) ==
    IF i > Len(s) THEN acc ELSE SumFrom(s, i + 1, FAdd(acc, s[i]))

\* s.iter().sum::<f64>(): the elements added left to right, from 0.0
Sum(s) == SumFrom(s, 1, Zero)

RECURSIVE FoldMin(_, _, _)
\* s.iter().fold(acc, |a, &b| a.min(b)), from element i
FoldMin(s, i, acc) ==
    IF i > Len(s) THEN acc ELSE FoldMin(s, i + 1, FMin(acc, s[i]))

RECURSIVE FoldMax(_, _, _)
\* s.iter().fold(acc, |a, &b| a.max(b)), from element i
FoldMax(s, i, acc) ==
    IF i > Len(s) THEN acc ELSE FoldMax(s, i + 1, FMax(acc, s[i]))

\* actual.iter().zip(predicted.iter()).map(|(&a, &p)| (a - p).powi(2))
SquaredErrors(actual, predicted) ==
    [i \in 1..Min2(Len(actual), Len(predicted)) |->
        FSquare(FSub(actual[i], predicted[i]))]

\* s.iter().map(|&y| (y - mean).powi(2))
SquaredDeviations(s, mean) == [i \in 1..Len(s) |-> FSquare(FSub(s[i], mean))]

---------------------------------------------------------------------------
(* calculate_mse, calculate_r_squared *)

\* calculate_mse without the division by n
calculate_mse_SumOnly(actual, predicted) ==
    IF Len(actual) # Len(predicted) \/ Len(actual) = 0 THEN Zero
    ELSE Sum(SquaredErrors(actual, predicted))

calculate_mse(actual, predicted) ==
    IF Len(actual) # Len(predicted) \/ Len(actual) = 0 THEN Zero
    ELSE LET n == FromUsize(Len(actual))
             sum_squared_errors == Sum(SquaredErrors(actual, predicted))
         IN  FDiv(sum_squared_errors, n)

\* calculate_r_squared without the guard on total_sum_squares
calculate_r_squared_NoGuard(actual, predicted, y_mean) ==
    IF Len(actual) # Len(predicted) \/ Len(actual) = 0 THEN Zero
    ELSE FSub(One, FDiv(Sum(SquaredErrors(actual, predicted)),
                        Sum(SquaredDeviations(actual, y_mean))))

calculate_r_squared(actual, predicted, y_mean) ==
    IF Len(actual) # Len(predicted) \/ Len(actual) = 0 THEN Zero
    ELSE LET total_sum_squares == Sum(SquaredDeviations(actual, y_mean))
             residual_sum_squares == Sum(SquaredErrors(actual, predicted))
         IN  IF FLt(FAbs(total_sum_squares), EPSILON) THEN One
             ELSE FSub(One, FDiv(residual_sum_squares, total_sum_squares))

---------------------------------------------------------------------------
(* linear_regression *)

\* the indices taken from 1 instead of 0
IndexVector_FromOne(len) == [i \in 1..len |-> FromUsize(i)]

\* x: the indices 0, 1, ..., len-1 as f64
IndexVector(len) == [i \in 1..len |-> FromUsize(i - 1)]

\* the mean of a non-empty sequence: its sum divided by its length
Mean(s) == FDiv(Sum(s), FromUsize(Len(s)))

RECURSIVE NumeratorFrom(_, _, _, _, _, _)
NumeratorFrom(x, data, x_mean, y_mean, i, acc) ==
    IF i > Len(data) THEN acc
    ELSE NumeratorFrom(x, data, x_mean, y_mean, i + 1,
            FAdd(acc, FMul(FSub(x[i], x_mean), FSub(data[i], y_mean))))

\* numerator after the loop: the sum of (x[i] - x_mean) * (data[i] - y_mean)
SlopeNumerator(data) ==
    NumeratorFrom(IndexVector(Len(data)), data,
                  Mean(IndexVector(Len(data))), Mean(data), 1, Zero)

RECURSIVE DenominatorFrom(_, _, _, _)
DenominatorFrom(x, x_mean, i, acc) ==
    IF i > Len(x) THEN acc
    ELSE DenominatorFrom(x, x_mean, i + 1,
            FAdd(acc, FSquare(FSub(x[i], x_mean))))

\* the denominator accumulated without .powi(2)
SlopeDenominator_NoSquare(data) ==
    Sum([i \in 1..Len(data) |->
            FSub(IndexVector(Len(data))[i], Mean(IndexVector(Len(data))))])

\* denominator after the loop: the sum of (x[i] - x_mean)^2
SlopeDenominator(data) ==
    DenominatorFrom(IndexVector(Len(data)), Mean(IndexVector(Len(data))), 1, Zero)

\* whether the zero-denominator guard trips
DenominatorGuard(denominator) == FLt(FAbs(denominator), EPSILON)

Slope(numerator, denominator) ==
    IF DenominatorGuard(denominator) THEN Zero
    ELSE FDiv(numerator, denominator)

\* the prediction with slope and intercept exchanged
Predictions_Swapped(x, intercept, slope) ==
    [i \in 1..Len(x) |-> FAdd(slope, FMul(intercept, x[i]))]

\* x.iter().map(|&xi| intercept + slope * xi)
Predictions(x, intercept, slope) ==
    [i \in 1..Len(x) |-> FAdd(intercept, FMul(slope, x[i]))]

\* the length check accepting a single observation
InsufficientData_OffByOne(len) == len < 1

\* whether linear_regression rejects an input of this length
InsufficientData(len) == len < 2

linear_regression(data) ==
    IF InsufficientData(Len(data))
    THEN Err(TimeSeriesError("Dados insuficientes para regressão linear"))
    ELSE LET x == IndexVector(Len(data))
             x_mean == Mean(x)
             y_mean == Mean(data)
             slope == Slope(SlopeNumerator(data), SlopeDenominator(data))
             intercept == FSub(y_mean, FMul(slope, x_mean))
             predictions == Predictions(x, intercept, slope)
             mse == calculate_mse(data, predictions)
             r_squared == calculate_r_squared(data, predictions, y_mean)
         IN  Ok([slope |-> slope, intercept |-> intercept,
                 r_squared |-> r_squared, mse |-> mse,
                 predictions |-> predictions])

---------------------------------------------------------------------------
(* predict_future *)

\* predict_future restarting the index at 0 instead of continuing from n
predict_future_FromZero(result, future_periods) ==
    [j \in 1..future_periods |->
        FAdd(result.intercept, FMul(result.slope, FromUsize(j - 1)))]

predict_future(result, future_periods) ==
    LET n == Len(result.predictions)
    IN  [j \in 1..future_periods |->
            FAdd(result.intercept, FMul(result.slope, FromUsize(n + (j - 1))))]

---------------------------------------------------------------------------
(* calculate_descriptive_stats *)

\* the sample variance: divided by n - 1
Variance_Sample(data, mean) ==
    FDiv(Sum(SquaredDeviations(data, mean)), FromUsize(Len(data) - 1))

\* the variance: the sum of the squared deviations from mean, divided by n
Variance(data, mean) ==
    FDiv(Sum(SquaredDeviations(data, mean)), FromUsize(Len(data)))

calculate_descriptive_stats(data) ==
    IF Len(data) = 0
    THEN Err(TimeSeriesError("Dados vazios para cálculo de estatísticas"))
    ELSE LET mean == Mean(data)
             variance == Variance(data, mean)
             std_dev == FSqrt(variance)
             min == FoldMin(data, 1, INFINITY)
             max == FoldMax(data, 1, NEG_INFINITY)
         IN  Ok([mean |-> mean, std_dev |-> std_dev, min |-> min, max |-> max])

---------------------------------------------------------------------------
(* ascii_plot *)

\* let height = 10
height == 10

\* {:8.1}: the value in decimal to one place (in tenths, nearest, ties to
\* even) with its sign; the padding to eight columns is not represented
FormatOneDecimal(v) ==
    LET n == Abs(v.m) * 10
        d == 2 ^ Max2(0, -v.e)
        q == (n * (2 ^ Max2(0, v.e))) \div d
        r == (n * (2 ^ Max2(0, v.e))) % d
        up == 2 * r > d \/ (2 * r = d /\ q % 2 = 1)
    IN  [negative |-> v.m < 0, tenths |-> IF up THEN q + 1 ELSE q]

\* actual.iter().chain(predicted.iter())
Chain(actual, predicted) == actual \o predicted

\* the threshold of a grid row: min_val + (range * row / height)
Threshold(min_val, range, row) ==
    FAdd(min_val, FDiv(FMul(range, FromUsize(row)), FromUsize(height)))

\* the cell marked only strictly above the threshold
Glyph_Strict(a, p, threshold) ==
    LET is_actual == FLt(threshold, a)
        is_predicted == FLt(threshold, p)
    IN  IF is_actual /\ is_predicted THEN "●"
        ELSE IF is_actual THEN "o"
        ELSE IF is_predicted THEN "x"
        ELSE " "

\* the glyph of one cell
Glyph(a, p, threshold) ==
    LET is_actual == FGe(a, threshold)
        is_predicted == FGe(p, threshold)
    IN  IF is_actual /\ is_predicted THEN "●"
        ELSE IF is_actual THEN "o"
        ELSE IF is_predicted THEN "x"
        ELSE " "

\* one grid row: its label and its cells, one per observation
GridRow(actual, predicted, min_val, range, row) ==
    LET threshold == Threshold(min_val, range, row)
    IN  [kind |-> "row", label |-> FormatOneDecimal(threshold),
         cells |-> [i \in 1..Len(actual) |->
                       Glyph(actual[i], predicted[i], threshold)]]

\* for row in (0..height).rev(): the rows, from row height-1 down to 0
GridRows(actual, predicted, min_val, range) ==
    [k \in 1..height |-> GridRow(actual, predicted, min_val, range, height - k)]

\* whether ascii_plot rejects the shape of its input
InvalidPlotData(actual, predicted) ==
    Len(actual) = 0 \/ Len(actual) # Len(predicted)

\* the range rejected only when it is exactly zero
RangeTooSmall_ZeroOnly(range) == range = Zero

\* whether ascii_plot rejects the range of its input
RangeTooSmall(range) == FLt(FAbs(range), EPSILON)

Text(t) == [kind |-> "text", text |-> t]

\* the lines ascii_plot writes to the standard output
ascii_plot(actual, predicted, title) ==
    IF InvalidPlotData(actual, predicted)
    THEN << Text("Dados inválidos para plotagem") >>
    ELSE LET width == Len(actual) * 2
             all_values == Chain(actual, predicted)
             min_val == FoldMin(all_values, 1, INFINITY)
             max_val == FoldMax(all_values, 1, NEG_INFINITY)
             range == FSub(max_val, min_val)
         IN  IF RangeTooSmall(range)
             THEN << Text("Intervalo de dados muito pequeno para plotagem") >>
             ELSE << Text(""), [kind |-> "title", text |-> title],
                     [kind |-> "rule", dashes |-> Min2(width, 60) + 12] >>
                  \o GridRows(actual, predicted, min_val, range)
                  \o << [kind |-> "axis", dashes |-> Min2(width, 60) + 2],
                        [kind |-> "periods",
                         labels |-> [i \in 1..Len(actual) |-> i]],
                        Text("          Periodo"),
                        Text(""), Text("Legenda:"),
                        Text("  o = Valor Real"),
                        Text("  x = Valor Previsto"),
                        Text("  ● = Real e Previsto (sobrepostos)") >>

---------------------------------------------------------------------------
(* Inputs *)

\* the f64 of an integer literal
Lit(i) == Round(Sign(i), Abs(i), 0)

\* the sequences over S of length at most n
SeqsUpTo(S, n) == UNION { [1..k -> S] : k \in 0..n }

\* a positive number below EPSILON
Tiny == Float(1, -MantissaBits)

RegressionValues == { Lit(-1), Lit(0), Lit(1), Lit(2), Lit(3), Lit(11) }
StatsValues == { Lit(-1), Lit(0), Lit(1), Lit(2), Lit(11), Float(1, -1) }
MetricValues == { Lit(0), Lit(1), Lit(2), Lit(3) }
PlotValues == { Lit(0), Tiny, Lit(1), Lit(3) }
Titles == { "Teste" }

---------------------------------------------------------------------------
(* The calls a client makes.  call is the function called and its        *)
(* arguments, pc whether the call is still to run or has returned, ret     *)
(* what it returned, printed what it wrote to the standard output.         *)

LinearRegressionCalls ==
    { [fn |-> "linear_regression", data |-> data] :
        data \in SeqsUpTo(RegressionValues, MaxLen) }

CalculateMseCalls ==
    { [fn |-> "calculate_mse", actual |-> actual, predicted |-> predicted] :
        actual \in SeqsUpTo(MetricValues, MaxPairLen),
        predicted \in SeqsUpTo(MetricValues, MaxPairLen) }

CalculateRSquaredCalls ==
    { [fn |-> "calculate_r_squared", actual |-> actual,
       predicted |-> predicted, y_mean |-> y_mean] :
        actual \in SeqsUpTo(MetricValues, MaxPairLen),
        predicted \in SeqsUpTo(MetricValues, MaxPairLen),
        y_mean \in MetricValues }

CalculateDescriptiveStatsCalls ==
    { [fn |-> "calculate_descriptive_stats", data |-> data] :
        data \in SeqsUpTo(StatsValues, MaxLen) }

AsciiPlotCalls ==
    { [fn |-> "ascii_plot", actual |-> actual, predicted |-> predicted,
       title |-> title] :
        actual \in SeqsUpTo(PlotValues, MaxPairLen),
        predicted \in SeqsUpTo(PlotValues, MaxPairLen),
        title \in Titles }

Init ==
    /\ call \in LinearRegressionCalls \cup CalculateMseCalls
                  \cup CalculateRSquaredCalls
                  \cup CalculateDescriptiveStatsCalls \cup AsciiPlotCalls
    /\ pc = "called"
    /\ ret = NoReturn
    /\ printed = <<>>

LinearRegression ==
    /\ pc = "called"
    /\ call.fn = "linear_regression"
    /\ ret' = linear_regression(call.data)
    /\ pc' = "returned"
    /\ UNCHANGED <<call, printed>>

\* predict_future on the result the client holds; fitted records the
\* sequence that result was fitted to
PredictFuture ==
    /\ pc = "returned"
    /\ call.fn = "linear_regression"
    /\ ret.tag = "Ok"
    /\ \E future_periods \in 0..MaxPeriods :
        /\ call' = [fn |-> "predict_future", result |-> ret.val,
                    future_periods |-> future_periods, fitted |-> call.data]
        /\ ret' = Returned(predict_future(ret.val, future_periods))
    /\ UNCHANGED <<printed, pc>>

CalculateMse ==
    /\ pc = "called"
    /\ call.fn = "calculate_mse"
    /\ ret' = Returned(calculate_mse(call.actual, call.predicted))
    /\ pc' = "returned"
    /\ UNCHANGED <<call, printed>>

CalculateRSquared ==
    /\ pc = "called"
    /\ call.fn = "calculate_r_squared"
    /\ ret' = Returned(calculate_r_squared(call.actual, call.predicted,
                                           call.y_mean))
    /\ pc' = "returned"
    /\ UNCHANGED <<call, printed>>

CalculateDescriptiveStats ==
    /\ pc = "called"
    /\ call.fn = "calculate_descriptive_stats"
    /\ ret' = calculate_descriptive_stats(call.data)
    /\ pc' = "returned"
    /\ UNCHANGED <<call, printed>>

AsciiPlot ==
    /\ pc = "called"
    /\ call.fn = "ascii_plot"
    /\ printed' = ascii_plot(call.actual, call.predicted, call.title)
    /\ pc' = "returned"
    /\ UNCHANGED <<call, ret>>

Next ==
    \/ LinearRegression
    \/ PredictFuture
    \/ CalculateMse
    \/ CalculateRSquared
    \/ CalculateDescriptiveStats
    \/ AsciiPlot

Spec == Init /\ [][Next]_vars

---------------------------------------------------------------------------
(* Vocabulary of the properties *)

\* the call to fn has returned
Done(fn) == pc = "returned" /\ call.fn = fn

Indices(s) == 1..Len(s)
Elements(s) == { s[i] : i \in Indices(s) }

\* the least and the greatest of a non-empty set of finite numbers
Least(S) == CHOOSE v \in S : \A w \in S : FLe(v, w)
Greatest(S) == CHOOSE v \in S : \A w \in S : FLe(w, v)

\* a + b and a * b without rounding
ExactAdd(a, b) ==
    LET e == Min2(a.e, b.e)
        n == a.m * (2 ^ (a.e - e)) + b.m * (2 ^ (b.e - e))
    IN  Normal(Sign(n), Abs(n), e)
ExactMul(a, b) == Normal(Sign(a.m) * Sign(b.m), Abs(a.m) * Abs(b.m), a.e + b.e)
ExactInt(i) == Normal(Sign(i), Abs(i), 0)

RECURSIVE ExactSum(_, _)
\* the sum of the first k elements of s, without rounding
ExactSum(s, k) == IF k = 0 THEN Zero ELSE ExactAdd(ExactSum(s, k - 1), s[k])

\* a number that the floating-point format holds
Representable(a) == BitLen(Abs(a.m)) <= MantissaBits

\* an integer, and its value
IsInteger(a) == IsFinite(a) /\ a.e >= 0
IntegerOf(a) == a.m * (2 ^ a.e)

---------------------------------------------------------------------------
(* C1 *)

\* C1: linear_regression returns an error for every input of length 0 or 1
\* and a result for every input of length >= 2; calculate_descriptive_stats
\* returns an error for the empty input and a result for every other input.
C1_MinimumSizeEnforced ==
    /\ Done("linear_regression") =>
          /\ Len(call.data) < 2 => ret.tag = "Err"
          /\ Len(call.data) >= 2 => ret.tag = "Ok"
    /\ Done("calculate_descriptive_stats") =>
          /\ Len(call.data) = 0 => ret.tag = "Err"
          /\ Len(call.data) > 0 => ret.tag = "Ok"

\* a regression on a single observation has been refused
C1_Witness ==
    /\ Done("linear_regression")
    /\ Len(call.data) = 1
    /\ ret.tag = "Err"

---------------------------------------------------------------------------
(* C2 *)

\* data is the series a + b*i, i = 0..n-1, exactly, with b = data[2] - data[1]
\* a number of the format
PerfectlyLinear(data) ==
    /\ Len(data) >= 2
    /\ LET a == data[1]
           b == ExactAdd(data[2], FNeg(data[1]))
       IN  /\ Representable(b)
           /\ \A i \in Indices(data) :
                 data[i] = ExactAdd(a, ExactMul(b, ExactInt(i - 1)))

InterceptOf(data) == data[1]
SlopeOf(data) == ExactAdd(data[2], FNeg(data[1]))

\* the fit recovers the line exactly
RecoversLine(data, result) ==
    /\ result.slope = SlopeOf(data)
    /\ result.intercept = InterceptOf(data)
    /\ result.r_squared = One
    /\ result.mse = Zero

\* C2 as claimed: for every perfectly linear series y[i] = a + b*i of length
\* >= 2, linear_regression returns slope = b, intercept = a, r_squared = 1.0
\* and mse = 0.
C2_Original ==
    (Done("linear_regression") /\ PerfectlyLinear(call.data))
        => (ret.tag = "Ok" /\ RecoversLine(call.data, ret.val))

\* the sums of the fit stay within the mantissa: the series is of integers,
\* n * max|y| <= 2^MantissaBits and max(1, |b|) * n(n^2 - 1)/3 <= 2^MantissaBits
SumsAreExact(data) ==
    LET n == Len(data)
        b == SlopeOf(data)
    IN  /\ \A i \in Indices(data) : IsInteger(data[i])
        /\ \A i \in Indices(data) :
              n * Abs(IntegerOf(data[i])) <= 2 ^ MantissaBits
        /\ Max2(1, Abs(IntegerOf(b))) * n * (n * n - 1) <= 3 * (2 ^ MantissaBits)

\* C2 as amended: for every perfectly linear series of integers of length
\* n >= 2 whose sums stay within the mantissa, linear_regression returns
\* slope = b, intercept = a, r_squared = 1.0 and mse = 0 exactly.
C2_ExactLinearFit ==
    (Done("linear_regression") /\ PerfectlyLinear(call.data)
       /\ SumsAreExact(call.data))
        => (ret.tag = "Ok" /\ RecoversLine(call.data, ret.val))

\* a sloped line of three small integers has been fitted
C2_Witness ==
    /\ Done("linear_regression")
    /\ Len(call.data) = 3
    /\ PerfectlyLinear(call.data)
    /\ SumsAreExact(call.data)
    /\ SlopeOf(call.data) # Zero
    /\ ret.tag = "Ok"
    /\ RecoversLine(call.data, ret.val)

---------------------------------------------------------------------------
(* C3 *)

\* C3: whenever linear_regression succeeds, predictions has the length of
\* the input and predictions[i] = intercept + slope * i for every index i in
\* 0..n-1, with the slope and the intercept of the same result.
C3_PredictionsOnTheLine ==
    (Done("linear_regression") /\ ret.tag = "Ok") =>
        /\ Len(ret.val.predictions) = Len(call.data)
        /\ \A i \in 0..(Len(call.data) - 1) :
              ret.val.predictions[i + 1] =
                  FAdd(ret.val.intercept, FMul(ret.val.slope, FromUsize(i)))

\* a fit of three observations with a slope has been returned
C3_Witness ==
    /\ Done("linear_regression")
    /\ ret.tag = "Ok"
    /\ Len(call.data) = 3
    /\ ret.val.slope # Zero
    /\ ret.val.predictions[3] # ret.val.predictions[1]

---------------------------------------------------------------------------
(* C4 *)

\* C4: predict_future returns exactly k values, forecast[j] = intercept +
\* slope * (n + j) for j in 0..k-1, n the length of the fitted sequence;
\* k = 0 yields the empty sequence, and it never fails.
C4_ForecastContinuesTheLine ==
    Done("predict_future") =>
        /\ ret.tag = "value"
        /\ Len(ret.val) = call.future_periods
        /\ call.future_periods = 0 => ret.val = <<>>
        /\ \A j \in 0..(call.future_periods - 1) :
              ret.val[j + 1] =
                  FAdd(call.result.intercept,
                       FMul(call.result.slope,
                            FromUsize(Len(call.fitted) + j)))

\* two periods have been forecast from a fit with a slope
C4_Witness ==
    /\ Done("predict_future")
    /\ call.future_periods = 2
    /\ call.result.slope # Zero
    /\ Len(ret.val) = 2

---------------------------------------------------------------------------
(* C5 *)

AllEqualTo(s, v) == \A i \in Indices(s) : s[i] = v
AllIdentical(s) == \A i, j \in Indices(s) : s[i] = s[j]

\* C5 as claimed: for non-empty actual and predicted of equal length and
\* every y_mean, if all values of actual are identical then
\* calculate_r_squared returns exactly 1.0, whatever the residuals.
C5_Original ==
    (Done("calculate_r_squared") /\ Len(call.actual) > 0
       /\ Len(call.actual) = Len(call.predicted)
       /\ AllIdentical(call.actual))
        => ret.val = One

\* C5 as amended: for non-empty actual and predicted of equal length, if all
\* values of actual are equal to the y_mean supplied (so that the total sum
\* of squares about y_mean is zero) then calculate_r_squared returns exactly
\* 1.0, whatever the residuals.
C5_ConstantAtTheMeanIsOne ==
    (Done("calculate_r_squared") /\ Len(call.actual) > 0
       /\ Len(call.actual) = Len(call.predicted)
       /\ AllEqualTo(call.actual, call.y_mean))
        => ret.val = One

\* a constant series at y_mean, predicted with an error, has scored 1.0
C5_Witness ==
    /\ Done("calculate_r_squared")
    /\ Len(call.actual) = 2
    /\ Len(call.predicted) = 2
    /\ AllEqualTo(call.actual, call.y_mean)
    /\ call.predicted # call.actual
    /\ ret.val = One

---------------------------------------------------------------------------
(* C6 *)

RECURSIVE SumOfSquaredDifferences(_, _, _)
\* the sum over the first k indices of (actual[i] - predicted[i])^2
SumOfSquaredDifferences(actual, predicted, k) ==
    IF k = 0 THEN Zero
    ELSE FAdd(SumOfSquaredDifferences(actual, predicted, k - 1),
              FMul(FSub(actual[k], predicted[k]), FSub(actual[k], predicted[k])))

\* C6: calculate_mse never fails; it returns 0.0 whenever the sequences
\* differ in length or either is empty, otherwise the sum of the squared
\* element-wise differences divided by the length, which is 0 when the
\* sequences are equal.
C6_MeanSquaredError ==
    Done("calculate_mse") =>
        /\ ret.tag = "value"
        /\ (Len(call.actual) # Len(call.predicted) \/ Len(call.actual) = 0
              \/ Len(call.predicted) = 0)
             => ret.val = Zero
        /\ (Len(call.actual) = Len(call.predicted) /\ Len(call.actual) > 0)
             => ret.val =
                  FDiv(SumOfSquaredDifferences(call.actual, call.predicted,
                                               Len(call.actual)),
                       FromUsize(Len(call.actual)))
        /\ call.actual = call.predicted => ret.val = Zero

\* the error of two different sequences of length 2 has been computed
C6_Witness ==
    /\ Done("calculate_mse")
    /\ Len(call.actual) = 2
    /\ Len(call.predicted) = 2
    /\ call.actual[1] # call.predicted[1]
    /\ call.actual[2] # call.predicted[2]
    /\ ret.val # Zero

---------------------------------------------------------------------------
(* C7 *)

RECURSIVE SumTo(_, _)
\* the sum of the first k elements of s, each addition rounded
SumTo(s, k) == IF k = 0 THEN Zero ELSE FAdd(SumTo(s, k - 1), s[k])

ArithmeticMean(s) == FDiv(SumTo(s, Len(s)), FromUsize(Len(s)))

RECURSIVE SumOfSquaredDeviations(_, _, _)
SumOfSquaredDeviations(s, mean, k) ==
    IF k = 0 THEN Zero
    ELSE FAdd(SumOfSquaredDeviations(s, mean, k - 1),
              FMul(FSub(s[k], mean), FSub(s[k], mean)))

\* the sum of the squared deviations from the mean divided by n, not n - 1
PopulationVariance(s) ==
    FDiv(SumOfSquaredDeviations(s, ArithmeticMean(s), Len(s)), FromUsize(Len(s)))

\* mean, std_dev, min and max are the statistics of data
StatisticsOf(data, stats) ==
    /\ stats.mean = ArithmeticMean(data)
    /\ stats.std_dev = FSqrt(PopulationVariance(data))
    /\ stats.min = Least(Elements(data))
    /\ stats.max = Greatest(Elements(data))

\* C7 as claimed: for every non-empty sequence the result is (mean, std_dev,
\* min, max) with mean the arithmetic mean, std_dev the root of the
\* population variance, min and max the smallest and largest elements, and
\* min <= mean <= max.
C7_Original ==
    (Done("calculate_descriptive_stats") /\ Len(call.data) > 0) =>
        /\ ret.tag = "Ok"
        /\ StatisticsOf(call.data, ret.val)
        /\ FLe(ret.val.min, ret.val.mean)
        /\ FLe(ret.val.mean, ret.val.max)

\* the sum of the data and its division by n lose nothing to rounding
MeanIsExact(data, mean) ==
    /\ Sum(data) = ExactSum(data, Len(data))
    /\ ExactMul(mean, ExactInt(Len(data))) = ExactSum(data, Len(data))

\* C7 as amended: for every non-empty sequence the result is (mean, std_dev,
\* min, max) with mean the f64 sum of the elements divided by n, std_dev the
\* f64 root of the f64 population variance (divided by n, not n - 1), min
\* and max the smallest and largest elements, and min <= max; min <= mean <=
\* max holds whenever the sum and its division by n are exact (rounding can
\* otherwise put the mean just outside the range of the data).
C7_Statistics ==
    (Done("calculate_descriptive_stats") /\ Len(call.data) > 0) =>
        /\ ret.tag = "Ok"
        /\ StatisticsOf(call.data, ret.val)
        /\ FLe(ret.val.min, ret.val.max)
        /\ MeanIsExact(call.data, ret.val.mean)
             => (FLe(ret.val.min, ret.val.mean) /\ FLe(ret.val.mean, ret.val.max))

\* the statistics of three observations that are not all equal, with an
\* exact mean strictly inside their range
C7_Witness ==
    /\ Done("calculate_descriptive_stats")
    /\ Len(call.data) = 3
    /\ ret.tag = "Ok"
    /\ MeanIsExact(call.data, ret.val.mean)
    /\ FLt(ret.val.min, ret.val.mean)
    /\ FLt(ret.val.mean, ret.val.max)
    /\ ret.val.std_dev # Zero

---------------------------------------------------------------------------
(* C8 *)

\* the maximum of both sequences minus the minimum of both
CombinedRange(actual, predicted) ==
    FSub(Greatest(Elements(actual) \cup Elements(predicted)),
         Least(Elements(actual) \cup Elements(predicted)))

BadShape(actual, predicted) ==
    Len(actual) = 0 \/ Len(predicted) = 0 \/ Len(actual) # Len(predicted)

\* the whole output is one diagnostic line
OnlyDiagnostic(out) ==
    /\ Len(out) = 1
    /\ out[1].kind = "text"
    /\ out[1].text \in { "Dados inválidos para plotagem",
                         "Intervalo de dados muito pequeno para plotagem" }

KindsOf(out) == [i \in Indices(out) |-> out[i].kind]

\* the title, exactly 10 grid rows, the axis, the labels and the legend
WholePlot(out, n, title) ==
    /\ KindsOf(out) = << "text", "title", "rule",
                         "row", "row", "row", "row", "row",
                         "row", "row", "row", "row", "row",
                         "axis", "periods", "text",
                         "text", "text", "text", "text", "text" >>
    /\ out[2].text = title
    /\ Cardinality({ i \in Indices(out) : out[i].kind = "row" }) = 10
    /\ out[15].labels = [i \in 1..n |-> i]
    /\ out[18].text = "Legenda:"

\* C8 as claimed: when the sequences are empty or of unequal length, or the
\* combined range is zero, the whole output is one diagnostic line; on every
\* other input ascii_plot emits the title, exactly 10 grid rows, the axis,
\* the labels and the legend.
C8_Original ==
    Done("ascii_plot") =>
        IF BadShape(call.actual, call.predicted)
           \/ CombinedRange(call.actual, call.predicted) = Zero
        THEN OnlyDiagnostic(printed)
        ELSE WholePlot(printed, Len(call.actual), call.title)

\* C8 as amended: when the sequences are empty or of unequal length, or the
\* combined range is smaller than machine epsilon (not only when it is zero),
\* the whole output is one diagnostic line; on every other input ascii_plot
\* emits the title, exactly 10 grid rows, the axis, the labels and the legend.
C8_DiagnosticOrWholePlot ==
    Done("ascii_plot") =>
        IF BadShape(call.actual, call.predicted)
           \/ FLt(FAbs(CombinedRange(call.actual, call.predicted)), EPSILON)
        THEN OnlyDiagnostic(printed)
        ELSE WholePlot(printed, Len(call.actual), call.title)

\* a plot of a range that is positive and below epsilon has been refused
C8_Witness ==
    /\ Done("ascii_plot")
    /\ ~BadShape(call.actual, call.predicted)
    /\ CombinedRange(call.actual, call.predicted) # Zero
    /\ OnlyDiagnostic(printed)

---------------------------------------------------------------------------
(* C9 *)

\* the plot was drawn
Plotted == Done("ascii_plot") /\ Len(printed) > 1

\* the grid row of row index r, 0..9: the rows are written from 9 down to 0
RowOf(out, r) == out[3 + (10 - r)]

\* min + range * r / 10
ThresholdOf(actual, predicted, r) ==
    FAdd(Least(Elements(actual) \cup Elements(predicted)),
         FDiv(FMul(CombinedRange(actual, predicted), FromUsize(r)),
              FromUsize(10)))

ShowsActual(cell) == cell \in { "o", "●" }
ShowsPredicted(cell) == cell \in { "x", "●" }

---------------------------------------------------------------------------
(* C10 *)

\* C10: the zero-denominator guard of linear_regression trips only for an
\* input of length < 2, which is rejected: for every accepted input the
\* denominator of the slope is strictly positive and the slope is numerator
\* / denominator, never the 0 of the guard.
C10_GuardNeverTrips ==
    Done("linear_regression") =>
        /\ DenominatorGuard(SlopeDenominator(call.data)) => Len(call.data) < 2
        /\ ret.tag = "Ok" =>
              /\ FLt(Zero, SlopeDenominator(call.data))
              /\ ret.val.slope =
                   FDiv(SlopeNumerator(call.data), SlopeDenominator(call.data))

\* a fit of the longest input with a slope that is not zero
C10_Witness ==
    /\ Done("linear_regression")
    /\ ret.tag = "Ok"
    /\ Len(call.data) = MaxLen
    /\ ret.val.slope # Zero
    /\ ~DenominatorGuard(SlopeDenominator(call.data))

============================================================================
